---- MODULE Spec2Model ----
(***************************************************************************)
(* Linear Time Hamming Search (src/LTHS.py): the pattern table P, the     *)
(* sliding text table T and the search loop, as a state machine.          *)
(* Characters are small integers; bit-vectors are naturals, as Python's   *)
(* unbounded ints are.  Strings are 1-based sequences, read through At    *)
(* with the code's 0-based indices.                                        *)
(***************************************************************************)
EXTENDS Integers, Sequences, FiniteSets

VARIABLES A, p, k, t, P, T, pc, i, j, x, s, diff, out, steps

vars == <<A, p, k, t, P, T, pc, i, j, x, s, diff, out, steps>>

(* ------------------------------ bounds -------------------------------- *)

MaxM == 2

MaxN == 4

\* Characters of the enumerated patterns and texts; the enumerated
\* alphabets hold 1 and 2 only, so 3 is a character outside the alphabet.
Chars == {1, 2, 3}

\* <<1, 2>> has distinct symbols, <<1, 2, 1>> repeats its first symbol.
Alphabets == {<<1, 2>>, <<1, 2, 1>>}

Strings(lo, hi) == UNION {[1..len -> Chars] : len \in lo..hi}

\* Longer runs, with A=1, C=2, G=3, T=4 and X=3 outside the alphabet AC:
\* ACGT / ACGT / 0 / TTACGTTT, ACGT / ACGT / 1 / ACCTACGA,
\* AC / ACA / 1 / XCAXACA and ACA / ACC / 0 / ACCACC.
Scenarios ==
    { [A |-> <<1, 2, 3, 4>>, p |-> <<1, 2, 3, 4>>, k |-> 0,
       t |-> <<4, 4, 1, 2, 3, 4, 4, 4>>],
      [A |-> <<1, 2, 3, 4>>, p |-> <<1, 2, 3, 4>>, k |-> 1,
       t |-> <<1, 2, 2, 4, 1, 2, 3, 1>>],
      [A |-> <<1, 2>>, p |-> <<1, 2, 1>>, k |-> 1,
       t |-> <<3, 2, 1, 3, 1, 2, 1>>],
      [A |-> <<1, 2, 1>>, p |-> <<1, 2, 2>>, k |-> 0,
       t |-> <<1, 2, 2, 1, 2, 2>>] }

Inputs ==
    { [A |-> a, p |-> pp, k |-> kk, t |-> tt] :
        a \in Alphabets, pp \in Strings(1, MaxM), kk \in 0..(MaxM - 1),
        tt \in Strings(0, MaxN) }

(* ------------------------- Python primitives -------------------------- *)

\* seq[idx] with a 0-based index
At(seq, idx) == seq[idx + 1]

\* list[idx] of a list of length len: a negative index counts from the end
PyIndex(idx, len) == IF idx < 0 THEN idx + len ELSE idx

\* a slice bound of a sequence of length len: negative bounds count from
\* the end, and the result is clamped to [0, len]
PyBound(idx, len) ==
    IF idx < 0 THEN (IF idx + len < 0 THEN 0 ELSE idx + len)
    ELSE (IF idx > len THEN len ELSE idx)

\* seq[lo:hi]
PySlice(seq, lo, hi) ==
    IF PyBound(lo, Len(seq)) < PyBound(hi, Len(seq))
    THEN SubSeq(seq, PyBound(lo, Len(seq)) + 1, PyBound(hi, Len(seq)))
    ELSE <<>>

RECURSIVE BitOr(_, _)
BitOr(a, b) ==
    IF a = 0 THEN b
    ELSE IF b = 0 THEN a
    ELSE (IF a % 2 = 1 \/ b % 2 = 1 THEN 1 ELSE 0) + 2 * BitOr(a \div 2, b \div 2)

RECURSIVE BitXor(_, _)
BitXor(a, b) ==
    IF a = 0 THEN b
    ELSE IF b = 0 THEN a
    ELSE (((a % 2) + (b % 2)) % 2) + 2 * BitXor(a \div 2, b \div 2)

RECURSIVE BitAnd(_, _)
BitAnd(a, b) ==
    IF a = 0 \/ b = 0 THEN 0
    ELSE ((a % 2) * (b % 2)) + 2 * BitAnd(a \div 2, b \div 2)

\* 1 << b
Shl1(b) == 2 ^ b

\* v >> 1
Shr1(v) == v \div 2

\* bit b of v
Bit(v, b) == (v \div (2 ^ b)) % 2

(* --------------------------- the program ------------------------------ *)

\* A.find(c): the first 0-based index of c in the alphabet, or -1
ALPHA(alph, c) ==
    IF \E idx \in 1..Len(alph) : alph[idx] = c
    THEN (CHOOSE idx \in 1..Len(alph) :
             /\ alph[idx] = c
             /\ \A l \in 1..(idx - 1) : alph[l] # c) - 1
    ELSE -1

RECURSIVE popcount(_)
popcount(v) == IF v = 0 THEN 0 ELSE (v % 2) + popcount(v \div 2)

sigma == Len(A)

m == Len(p)

n == Len(t)

\* [0] * sigma
Zeros == [jj \in 0..(sigma - 1) |-> 0]

\* P[j] = P[j] | (1 << i), j as returned by ALPHA (-1 included)
SetP(tab, jj, b) ==
    [tab EXCEPT ![PyIndex(jj, sigma)] = BitOr(tab[PyIndex(jj, sigma)], Shl1(b))]

\* if j == -1: continue;  T[j] = T[j] | (1 << i)
SetT(tab, jj, b) ==
    IF jj = -1 THEN tab
    ELSE [tab EXCEPT ![PyIndex(jj, sigma)] = BitOr(tab[PyIndex(jj, sigma)], Shl1(b))]

\* the loop of initialize_T goes on: the text is not exhausted and no break
InitTContinues(idx, len, mm) == idx < len /\ ~(idx >= mm - 2)

NewestBitWrong(mm) == Shl1(mm) - 1
\* 1 << m-1
NewestBit(mm) == Shl1(mm - 1)

AppendNewestUnguarded(tab, xx, mm) ==
    [tab EXCEPT ![PyIndex(xx, sigma)] = BitOr(tab[PyIndex(xx, sigma)], NewestBit(mm))]
\* if x != -1: T[x] = T[x] | (1 << m-1)
AppendNewest(tab, xx, mm) ==
    IF xx # -1
    THEN [tab EXCEPT ![PyIndex(xx, sigma)] = BitOr(tab[PyIndex(xx, sigma)], NewestBit(mm))]
    ELSE tab

\* (P[j] ^ T[j]) & P[j]
Diff(pj, tj) == BitAnd(BitXor(pj, tj), pj)

InRangeShort(idx, len) == idx < len - 1
\* i in range(m-1, n), i having started at m-1
InRange(idx, len) == idx < len

ReportPosOffByOne(idx, mm) == idx - mm
\* the position argument of report: i-m+1
ReportPos(idx, mm) == idx - mm + 1

\* the line report prints: position, k_mismatches, t[position:position+m]
report(position, k_mismatches, txt, mm) ==
    [position |-> position, mismatches |-> k_mismatches,
     matched_text |-> PySlice(txt, position, position + mm)]

Init ==
    /\ \E inp \in Inputs \cup Scenarios :
          /\ inp.k < Len(inp.p)
          /\ A = inp.A
          /\ p = inp.p
          /\ k = inp.k
          /\ t = inp.t
    /\ P = Zeros
    /\ T = Zeros
    /\ pc = "initialize_P"
    /\ i = 0
    /\ j = 0
    /\ x = 0
    /\ s = 0
    /\ diff = 0
    /\ out = <<>>
    /\ steps = <<>>

\* one iteration of initialize_P
InitPStep ==
    /\ pc = "initialize_P"
    /\ i < m
    /\ j' = ALPHA(A, At(p, i))
    /\ P' = SetP(P, j', i)
    /\ i' = i + 1
    /\ UNCHANGED <<A, p, k, t, T, pc, x, s, diff, out, steps>>

\* initialize_P returns; T = [0] * sigma; initialize_T is entered
InitPDone ==
    /\ pc = "initialize_P"
    /\ i >= m
    /\ T' = Zeros
    /\ pc' = "initialize_T"
    /\ i' = 0
    /\ UNCHANGED <<A, p, k, t, P, j, x, s, diff, out, steps>>

\* one iteration of initialize_T
InitTStep ==
    /\ pc = "initialize_T"
    /\ InitTContinues(i, n, m)
    /\ j' = ALPHA(A, At(t, i))
    /\ T' = SetT(T, j', i)
    /\ i' = i + 1
    /\ UNCHANGED <<A, p, k, t, P, pc, x, s, diff, out, steps>>

\* initialize_T returns (break, or the text is exhausted); search is entered
InitTDone ==
    /\ pc = "initialize_T"
    /\ ~InitTContinues(i, n, m)
    /\ pc' = "search"
    /\ i' = m - 1
    /\ UNCHANGED <<A, p, k, t, P, T, j, x, s, diff, out, steps>>

\* head of a step of search: the newest character enters the window, s = 0
SearchAppend ==
    /\ pc = "search"
    /\ InRange(i, n)
    /\ x' = ALPHA(A, At(t, i))
    /\ T' = AppendNewest(T, x', m)
    /\ s' = 0
    /\ j' = 0
    /\ pc' = "sum"
    /\ UNCHANGED <<A, p, k, t, P, i, diff, out, steps>>

\* one iteration of the loop over the symbols
SumStep ==
    /\ pc = "sum"
    /\ j < sigma
    /\ diff' = Diff(P[j], T[j])
    /\ s' = s + popcount(diff')
    /\ T' = [T EXCEPT ![j] = Shr1(T[j])]
    /\ j' = j + 1
    /\ UNCHANGED <<A, p, k, t, P, pc, i, x, out, steps>>

\* tail of a step of search: the match is reported when s <= k
Report ==
    /\ pc = "sum"
    /\ j >= sigma
    /\ out' = IF s <= k THEN Append(out, report(ReportPos(i, m), s, t, m)) ELSE out
    /\ steps' = Append(steps, i)
    /\ i' = i + 1
    /\ pc' = "search"
    /\ UNCHANGED <<A, p, k, t, P, T, j, x, s, diff>>

\* the range of search is exhausted: LTHS returns
SearchDone ==
    /\ pc = "search"
    /\ ~InRange(i, n)
    /\ pc' = "done"
    /\ UNCHANGED <<A, p, k, t, P, T, i, j, x, s, diff, out, steps>>

Next ==
    \/ InitPStep
    \/ InitPDone
    \/ InitTStep
    \/ InitTDone
    \/ SearchAppend
    \/ SumStep
    \/ Report
    \/ SearchDone

Spec == Init /\ [][Next]_vars

\* The program is sequential and runs to completion: every enabled step is taken.
FairSpec == Init /\ [][Next]_vars /\ WF_vars(Next)

(* ------------------- reference notions of the claims ------------------ *)

InAlphabet(c) == \E idx \in 1..Len(A) : A[idx] = c

Distinct == \A a, b \in 1..Len(A) : a # b => A[a] # A[b]

OverAlphabet(seq) == \A idx \in 1..Len(seq) : InAlphabet(seq[idx])

\* c is the alphabet's jj-th symbol, jj being that symbol's first occurrence
Holds(c, jj) == c = At(A, jj) /\ \A l \in 0..(jj - 1) : At(A, l) # c

\* the offsets of alignment q at which text and pattern differ
Hamming(q) == Cardinality({b \in 0..(m - 1) : At(t, q + b) # At(p, b)})

\* the offsets of alignment q at which text and pattern are not the same
\* alphabet symbol (a character outside the alphabet is no symbol)
SymbolMismatches(q) ==
    Cardinality({b \in 0..(m - 1) : ~(InAlphabet(At(p, b)) /\ At(t, q + b) = At(p, b))})

Positions == {out[e].position : e \in 1..Len(out)}

\* the text character at offset b of the window whose right edge is i
WindowChar(b) == At(t, i - m + 1 + b)

(* ------------------------------ claims -------------------------------- *)

\* C1 (completeness): alphabet of distinct symbols, pattern and text over
\* it, m <= n: when the search is over, every alignment position q in
\* [0, n-m] with at most k differing offsets has been reported.
C1_Completeness ==
    (pc = "done" /\ Distinct /\ OverAlphabet(p) /\ OverAlphabet(t) /\ m <= n)
        => \A q \in 0..(n - m) : Hamming(q) <= k => q \in Positions

\* C2 (soundness): every reported position q, characters outside the
\* alphabet allowed in pattern and text, has at most k offsets at which
\* text and pattern are not the same alphabet symbol.
C2_Soundness ==
    \A e \in 1..Len(out) : SymbolMismatches(out[e].position) <= k

\* C3 (exact mismatch count): pattern and text over the alphabet: when the
\* sum of a step is complete, s is the Hamming distance of the alignment,
\* and so is the mismatch count of every reported match.
C3_ExactCount ==
    (OverAlphabet(p) /\ OverAlphabet(t)) =>
        /\ (pc = "sum" /\ j >= sigma) => s = Hamming(i - m + 1)
        /\ \A e \in 1..Len(out) : out[e].mismatches = Hamming(out[e].position)

\* C4 (k = 0 is exact matching): pattern and text over the alphabet,
\* m <= n, k = 0: the reported positions are exactly the occurrences of
\* the pattern in the text, each with mismatch count 0.
C4_ExactMatching ==
    (pc = "done" /\ k = 0 /\ OverAlphabet(p) /\ OverAlphabet(t) /\ m <= n) =>
        /\ Positions = {q \in 0..(n - m) : SubSeq(t, q + 1, q + m) = p}
        /\ \A e \in 1..Len(out) : out[e].mismatches = 0

\* C5 (emission order): every step leaves the results emitted so far as
\* they are, adding at most at the end; the reported positions lie in
\* [0, n-m] and are strictly increasing (so none is reported twice).
C5_EmissionOrder ==
    [][ /\ Len(out') >= Len(out)
        /\ SubSeq(out', 1, Len(out)) = out
        /\ \A e \in 1..Len(out') : out'[e].position \in 0..(n - m)
        /\ \A e \in 1..(Len(out') - 1) : out'[e].position < out'[e + 1].position
      ]_vars

C5_Witness == pc = "done" /\ Len(out) >= 2

\* C6 (termination and step count): the search ends, having executed
\* exactly one step for each text index m-1, ..., n-1 in this order: n-m+1
\* steps when m <= n, none and no output when n < m.
C6_Termination ==
    <>[](/\ pc = "done"
         /\ Len(steps) = (IF m <= n THEN n - m + 1 ELSE 0)
         /\ \A e \in 1..Len(steps) : steps[e] = m - 2 + e
         /\ (n < m => out = <<>>))

C6_Witness == pc = "done" /\ m < n /\ Len(steps) = n - m + 1

\* C7 (unknown text symbol is a mismatch): when a step computes its
\* distance, no window offset holding a text character outside the
\* alphabet has its bit set in any T[j]; such an offset, when the pattern
\* holds an alphabet symbol there, has its bit set in that symbol's diff
\* and is counted in s.
C7_UnknownTextMismatch ==
    /\ (pc = "sum" /\ j = 0) =>
          \A b \in 0..(m - 1) :
              ~InAlphabet(WindowChar(b)) => \A jj \in 0..(sigma - 1) : Bit(T[jj], b) = 0
    /\ (pc = "sum" /\ j > 0) =>
          \A b \in 0..(m - 1) :
              (~InAlphabet(WindowChar(b)) /\ Holds(At(p, b), j - 1)) => Bit(diff, b) = 1
    /\ (pc = "sum" /\ j >= sigma) =>
          s >= Cardinality({b \in 0..(m - 1) :
                               ~InAlphabet(WindowChar(b)) /\ InAlphabet(At(p, b))})

C7_Witness ==
    /\ pc = "sum"
    /\ j > 0
    /\ sigma >= 2
    /\ i >= m
    /\ \E b \in 0..(m - 1) :
          ~InAlphabet(WindowChar(b)) /\ Holds(At(p, b), j - 1) /\ Bit(diff, b) = 1

\* C8 (window encoder): when initialize_T has returned, bit b of T[j] is
\* set iff t[b] is the alphabet's j-th symbol, for every offset b below
\* min(m-1, n), and no bit at offset m-1 or above is set.
C8_WindowEncoder ==
    (pc = "search" /\ steps = <<>>) =>
        \A jj \in 0..(sigma - 1) :
            /\ \A b \in 0..((IF m - 1 < n THEN m - 1 ELSE n) - 1) :
                  Bit(T[jj], b) = 1 <=> Holds(At(t, b), jj)
            /\ T[jj] < 2 ^ (m - 1)

\* C9 (pattern encoder): when initialize_P has returned, bit b of P[j] is
\* set iff p[b] is the alphabet's j-th symbol; a pattern character outside
\* the alphabet sets no bit in any P[j].
C9_PatternEncoder ==
    pc # "initialize_P" =>
        \A jj \in 0..(sigma - 1) : \A b \in 0..(m - 1) :
            Bit(P[jj], b) = 1 <=> Holds(At(p, b), jj)

\* C10 (the initialisation ages out): at every step i >= 2m-2, when the
\* distance is computed, bit b of T[j] is set iff the window's character
\* at offset b is the alphabet's j-th symbol, and T[j] has no bit at
\* offset m or above.
C10_WindowExact ==
    (pc = "sum" /\ j = 0 /\ i >= 2 * m - 2) =>
        \A jj \in 0..(sigma - 1) :
            /\ \A b \in 0..(m - 1) : Bit(T[jj], b) = 1 <=> Holds(WindowChar(b), jj)
            /\ T[jj] < 2 ^ m

\* a step past 2m-2 of a run in which initialize_T left out t[m-2]
C10_Witness ==
    /\ pc = "sum"
    /\ j = 0
    /\ i >= 2 * m - 2
    /\ m >= 3
    /\ InAlphabet(At(t, m - 2))
    /\ \E jj \in 0..(sigma - 1) : T[jj] # 0

====
